---- MODULE Spec2Model ----
(***************************************************************************)
(* Payment relay adapter (PhonePe gateway).  The repository holds three    *)
(* drafts of the same express application:                                 *)
(*   "server"    : src/server.js                                           *)
(*   "first"     : src/unnamed/part_000 lines 1-63                         *)
(*   "validated" : src/unnamed/part_000 lines 65-458                       *)
(* One of them is the running program; Init chooses which.                 *)
(*                                                                         *)
(* JavaScript values are tagged records.  Numbers are exact decimals with  *)
(* two fractional digits, held as an integer count of hundredths; strings  *)
(* are sequences of one-character strings.                                 *)
(***************************************************************************)
EXTENDS Integers, Sequences, FiniteSets, TLC

\* ---------------------------------------------------------------- bounds
MaxReq == 2          \* requests accepted over a run
MaxClock == 2        \* last millisecond Date.now() reaches

\* the client connections; each carries one request at a time
Conns == {"c1", "c2"}

\* ------------------------------------------------------ JavaScript values
Undef == [t |-> "undef"]
NaN == [t |-> "nan"]
Null == [t |-> "null"]
Num(h) == [t |-> "num", h |-> h]            \* h hundredths
Str(s) == [t |-> "str", s |-> s]

Digits == {"0", "1", "2", "3", "4", "5", "6", "7", "8", "9"}

DigitVal(c) ==
  CASE c = "0" -> 0 [] c = "1" -> 1 [] c = "2" -> 2 [] c = "3" -> 3
    [] c = "4" -> 4 [] c = "5" -> 5 [] c = "6" -> 6 [] c = "7" -> 7
    [] c = "8" -> 8 [] c = "9" -> 9

\* number of leading decimal digits of s from position i on
RECURSIVE DigitRun(_, _)
DigitRun(s, i) ==
  IF i <= Len(s) /\ s[i] \in Digits THEN 1 + DigitRun(s, i + 1) ELSE 0

\* value of the digits s[i..j] read as a decimal integer
RECURSIVE DigitsVal(_, _, _)
DigitsVal(s, i, j) ==
  IF j < i THEN 0 ELSE DigitsVal(s, i, j - 1) * 10 + DigitVal(s[j])

\* the first two fractional digits s[i], s[i+1] as hundredths (n >= 1 digits)
Hundredths(s, i, n) ==
  DigitVal(s[i]) * 10 + (IF n >= 2 THEN DigitVal(s[i + 1]) ELSE 0)

\* parseFloat of a string: optional sign, digits, optional fraction; the
\* longest such prefix is the number, anything after it is ignored
ParseFloatStr(s) ==
  LET neg == Len(s) >= 1 /\ s[1] = "-"
      b == IF neg \/ (Len(s) >= 1 /\ s[1] = "+") THEN 2 ELSE 1
      ni == DigitRun(s, b)
      dot == b + ni <= Len(s) /\ s[b + ni] = "."
      nf == IF dot THEN DigitRun(s, b + ni + 1) ELSE 0
      mag == DigitsVal(s, b, b + ni - 1) * 100
               + (IF nf >= 1 THEN Hundredths(s, b + ni + 1, nf) ELSE 0)
  IN IF ni = 0 /\ nf = 0 THEN NaN
     ELSE Num(IF neg THEN 0 - mag ELSE mag)

\* parseFloat(v): v is converted to a string first, so a number is itself
parseFloat(v) ==
  CASE v.t = "num" -> v
    [] v.t = "str" -> ParseFloatStr(v.s)
    [] OTHER -> NaN

\* integer part, truncated towards zero
Trunc(h) == IF h >= 0 THEN (h \div 100) * 100 ELSE 0 - (((0 - h) \div 100) * 100)

\* parseInt of a string: optional sign, digits; stops at the first other char
ParseIntStr(s) ==
  LET neg == Len(s) >= 1 /\ s[1] = "-"
      b == IF neg \/ (Len(s) >= 1 /\ s[1] = "+") THEN 2 ELSE 1
      ni == DigitRun(s, b)
      mag == DigitsVal(s, b, b + ni - 1) * 100
  IN IF ni = 0 THEN NaN ELSE Num(IF neg THEN 0 - mag ELSE mag)

\* parseInt(v): the decimal text of a number stops at its "."
parseInt(v) ==
  CASE v.t = "num" -> Num(Trunc(v.h))
    [] v.t = "str" -> ParseIntStr(v.s)
    [] OTHER -> NaN

\* Number(v), the coercion done by the * operator
ToNumber(v) ==
  CASE v.t = "num" -> v
    [] v.t = "str" ->
         IF v.s = <<>> THEN Num(0)
         ELSE LET p == ParseFloatStr(v.s)
                  neg == v.s[1] \in {"-", "+"}
                  b == IF neg THEN 2 ELSE 1
                  ni == DigitRun(v.s, b)
                  dot == b + ni <= Len(v.s) /\ v.s[b + ni] = "."
                  nf == IF dot THEN DigitRun(v.s, b + ni + 1) ELSE 0
                  used == (b - 1) + ni + (IF dot THEN 1 + nf ELSE 0)
              IN IF used = Len(v.s) THEN p ELSE NaN
    [] v.t = "null" -> Num(0)
    [] OTHER -> NaN

\* x * 100
Times100(x) == IF x.t = "num" THEN Num(x.h * 100) ELSE NaN

\* Math.round(x): nearest integer, halves towards +Infinity
MathRound(x) == IF x.t = "num" THEN Num(((x.h + 50) \div 100) * 100) ELSE NaN

\* isNaN(x)
isNaN(x) == x.t = "nan"

\* v.length
Length(v) == IF v.t = "str" THEN Num(Len(v.s) * 100) ELSE Undef

\* a < b and a > b on numbers; any comparison with undefined or NaN is false
Lt(a, b) == a.t = "num" /\ b.t = "num" /\ a.h < b.h
Gt(a, b) == a.t = "num" /\ b.t = "num" /\ a.h > b.h
Le(a, b) == a.t = "num" /\ b.t = "num" /\ a.h <= b.h

\* String(v) as used by string concatenation and template literals
ToStr(v) ==
  CASE v.t = "str" -> v.s
    [] v.t = "undef" -> <<"u", "n", "d", "e", "f", "i", "n", "e", "d">>
    [] v.t = "null" -> <<"n", "u", "l", "l">>

\* s.startsWith(p), s.includes(p)
StartsWith(s, p) == Len(s) >= Len(p) /\ SubSeq(s, 1, Len(p)) = p
Includes(s, p) ==
  \E i \in 1..(Len(s) + 1) :
     i + Len(p) - 1 <= Len(s) /\ SubSeq(s, i, i + Len(p) - 1) = p

\* ------------------------------------------------- objects, JSON, signing
\* An object is the sequence of its <<key, value>> pairs in insertion order.
Obj(pairs) == [t |-> "obj", p |-> pairs]
Bool(b) == [t |-> "bool", b |-> b]
\* a string literal of the program whose characters are never inspected
Lit(text) == [t |-> "lit", v |-> text]

\* !v
Falsy(v) ==
  \/ v.t \in {"undef", "nan", "null"}
  \/ v.t = "num" /\ v.h = 0
  \/ v.t = "str" /\ v.s = <<>>
  \/ v.t = "bool" /\ ~v.b

\* reading a property of undefined or null throws a TypeError
Throws(v) == v.t \in {"undef", "null"}

HasKey(obj, k) == obj.t = "obj" /\ \E i \in 1..Len(obj.p) : obj.p[i][1] = k

\* obj[k]; undefined when the key is absent
Get(obj, k) ==
  IF HasKey(obj, k)
  THEN obj.p[CHOOSE i \in 1..Len(obj.p) : obj.p[i][1] = k][2]
  ELSE Undef

\* a || b
Or(a, b) == IF Falsy(a) THEN b ELSE a

Defined(e) == e[2] # Undef
JsonValue(v) == IF v = NaN THEN Null ELSE v

\* JSON.stringify(obj): keys in insertion order, undefined members dropped,
\* NaN written as null
JSONStringify(obj) ==
  LET kept == SelectSeq(obj.p, Defined)
  IN [json |-> [i \in 1..Len(kept) |-> <<kept[i][1], JsonValue(kept[i][2])>>]]

\* Buffer.from(text).toString("base64")
Base64(text) == [base64 |-> text]

\* crypto.createHash("sha256").update(data).digest("hex")
Sha256Hex(data) == [sha256hex |-> data]

PayPath == "/pg/v1/pay"
StatusPath == "/pg/v1/status/"

SignPayOverJson(payloadBase64, saltKey, saltIndex) ==
  <<Sha256Hex(<<payloadBase64.base64, PayPath, ToStr(saltKey)>>), "###", ToStr(saltIndex)>>

\* X-VERIFY of the pay call
SignPay(payloadBase64, saltKey, saltIndex) ==
  <<Sha256Hex(<<payloadBase64, PayPath, ToStr(saltKey)>>), "###", ToStr(saltIndex)>>

\* X-VERIFY of the status call
SignStatus(merchantId, transactionId, saltKey, saltIndex) ==
  <<Sha256Hex(<<StatusPath, ToStr(merchantId), "/", transactionId, ToStr(saltKey)>>),
    "###", ToStr(saltIndex)>>

\* ------------------------------------------------------------ validation
MaxAmount == 100000

\* /^[6-9]\d{9}$/.test(mobile)
validateMobileNumber(mobile) ==
  LET s == ToStr(mobile)
  IN /\ Len(s) = 10
     /\ s[1] \in {"6", "7", "8", "9"}
     /\ \A i \in 2..10 : s[i] \in Digits

validateAmount(amount) ==
  LET numAmount == parseFloat(amount)
  IN ~isNaN(numAmount) /\ Gt(numAmount, Num(0)) /\ Le(numAmount, Num(MaxAmount * 100))

\* ------------------------------------------------------ requests, replies
Drafts == {"server", "first", "validated"}

\* a request being handled: what was computed, sent out and answered so far
NewReq(kind, input) ==
  [kind |-> kind, input |-> input, pc |-> "done", txn |-> Undef,
   payload |-> Undef, hashes |-> 0, calls |-> <<>>, reply |-> Undef,
   resps |-> <<>>]

\* res.status(status).json(body)
Respond(r, status, body) ==
  [r EXCEPT !.resps = Append(@, [status |-> status, body |-> body]), !.pc = "done"]

\* await fetch(...): the call goes out and the handler is suspended
Fetch(r, call) == [r EXCEPT !.calls = Append(@, call), !.pc = "await"]

ConfigMissing(env) ==
  Falsy(env.MERCHANT_ID) \/ Falsy(env.SALT_KEY) \/ Falsy(env.SALT_INDEX)

MissingFields(body) == Falsy(body.amount) \/ Falsy(body.mobile) \/ Falsy(body.name)

CallbackUrl(base, transactionId) == [base |-> base, path |-> "/callback/", id |-> transactionId]

\* ---------------------------------------------- POST /pay, src/server.js
PayAmountServer(amount) == Times100(parseInt(amount))

PayStartServer(env, body, now) ==
  LET r0 == NewReq("pay", body)
      transactionId == [prefix |-> "MT", ts |-> now, rnd |-> <<>>]
      userId == [prefix |-> "MUID", ts |-> now, rnd |-> <<>>]
      payload == Obj(<<
        <<"merchantId", env.MERCHANT_ID>>,
        <<"merchantTransactionId", transactionId>>,
        <<"merchantUserId", userId>>,
        <<"amount", PayAmountServer(body.amount)>>,
        <<"redirectUrl", CallbackUrl("https://phonepe-framer-backend.onrender.com", transactionId)>>,
        <<"redirectMode", Lit("POST")>>,
        <<"callbackUrl", CallbackUrl("https://phonepe-framer-backend.onrender.com", transactionId)>>,
        <<"mobileNumber", body.mobile>>,
        <<"paymentInstrument", Obj(<< <<"type", Lit("PAY_PAGE")>> >>)>> >>)
      payloadBase64 == Base64(JSONStringify(payload))
      hash == SignPay(payloadBase64, env.SALT_KEY, env.SALT_INDEX)
  IN IF MissingFields(body)
     THEN Respond(r0, 400, [error |-> "Missing required fields",
                            required |-> <<"amount", "mobile", "name">>,
                            received |-> body])
     ELSE IF ConfigMissing(env)
     THEN Respond(r0, 500, [error |-> "Server configuration error"])
     ELSE Fetch([r0 EXCEPT !.txn = transactionId, !.payload = payload, !.hashes = 1],
                [method |-> "POST", host |-> "api.phonepe.com",
                 path |-> "/apis/hermes/pg/v1/pay",
                 xverify |-> hash, request |-> payloadBase64])

\* the success test of line 95
PaySuccessServer(data) ==
  /\ Get(data, "success") = Bool(TRUE)
  /\ ~Falsy(Get(data, "data"))
  /\ ~Falsy(Get(Get(data, "data"), "instrumentResponse"))
  /\ ~Falsy(Get(Get(Get(data, "data"), "instrumentResponse"), "redirectInfo"))

RedirectUrl(data) ==
  Get(Get(Get(Get(data, "data"), "instrumentResponse"), "redirectInfo"), "url")

\* a response body member whose value is undefined is not sent
WithUrl(body, url) ==
  IF url = Undef THEN body ELSE [k \in DOMAIN body \cup {"url"} |->
                                   IF k = "url" THEN url ELSE body[k]]

PayCatchServerRetry(r) == Fetch(r, r.calls[1])

PayCatchServerLogOnly(r) == [r EXCEPT !.pc = "done"]

\* the catch block of lines 110-116
PayCatchServer(r) ==
  Respond(r, 500, [error |-> "Internal server error", details |-> "err.message"])

PayParseErrorServerAsRejected(r) ==
  Respond(r, 400, [error |-> "Payment initiation failed"])

\* the catch block of lines 87-90: the reply is not JSON
PayParseErrorServer(r) ==
  Respond(r, 500, [error |-> "Invalid response from PhonePe"])

PayFinishServer(r, reply) ==
  LET r1 == [r EXCEPT !.reply = reply]
      data == reply.value
  IN CASE reply.kind = "error" -> PayCatchServer(r1)
       [] reply.kind = "text" -> PayParseErrorServer(r1)
       [] reply.kind = "json" /\ Throws(data) -> PayCatchServer(r1)
       [] reply.kind = "json" /\ ~Throws(data) /\ PaySuccessServer(data) ->
            Respond(r1, 200, WithUrl([success |-> TRUE, transactionId |-> r.txn],
                                     RedirectUrl(data)))
       [] OTHER ->
            Respond(r1, 400, [error |-> "Payment initiation failed",
                              details |-> data,
                              message |-> Or(Get(data, "message"), Lit("Unknown error")),
                              code |-> Or(Get(data, "code"), Lit("UNKNOWN"))])

\* --------------------------- POST /pay, src/unnamed/part_000 lines 12-61
PayAmountFirst(amount) == Times100(ToNumber(amount))

PayStartFirst(env, body, now) ==
  LET r0 == NewReq("pay", body)
      transactionId == [prefix |-> "T", ts |-> now, rnd |-> <<>>]
      payload == Obj(<<
        <<"merchantId", env.MERCHANT_ID>>,
        <<"transactionId", transactionId>>,
        <<"merchantUserId", body.mobile>>,
        <<"amount", PayAmountFirst(body.amount)>>,
        <<"redirectUrl", env.CALLBACK_URL>>,
        <<"redirectMode", Lit("POST")>>,
        <<"mobileNumber", body.mobile>>,
        <<"paymentInstrument", Obj(<< <<"type", Lit("PAY_PAGE")>> >>)>> >>)
      payloadBase64 == Base64(JSONStringify(payload))
      hash == SignPay(payloadBase64, env.SALT_KEY, env.SALT_INDEX)
  IN Fetch([r0 EXCEPT !.txn = transactionId, !.payload = payload, !.hashes = 1],
           [method |-> "POST", host |-> "api.phonepe.com",
            path |-> "/apis/hermes/pg/v1/pay",
            xverify |-> hash, request |-> payloadBase64])

\* evaluating line 51 throws when a link of the chain is undefined or null
PayTestThrowsFirst(data) ==
  \/ Throws(data)
  \/ /\ ~Falsy(Get(data, "success"))
     /\ \/ Throws(Get(data, "data"))
        \/ Throws(Get(Get(data, "data"), "instrumentResponse"))
        \/ Throws(Get(Get(Get(data, "data"), "instrumentResponse"), "redirectInfo"))

PayFinishFirst(r, reply) ==
  LET r1 == [r EXCEPT !.reply = reply]
      data == reply.value
  IN CASE reply.kind \in {"error", "text"} ->
            Respond(r1, 500, [error |-> "Something went wrong"])
       [] reply.kind = "json" /\ PayTestThrowsFirst(data) ->
            Respond(r1, 500, [error |-> "Something went wrong"])
       [] reply.kind = "json" /\ ~PayTestThrowsFirst(data)
            /\ ~Falsy(Get(data, "success")) /\ ~Falsy(RedirectUrl(data)) ->
            Respond(r1, 200, [url |-> RedirectUrl(data)])
       [] OTHER ->
            Respond(r1, 400, [error |-> "Payment failed", details |-> data])

\* -------------------------- POST /pay, src/unnamed/part_000 lines 87-249
PayAmountValidated(amount) == MathRound(Times100(parseFloat(amount)))

\* process.env.NODE_ENV === 'production' && merchantId.startsWith('M')
\*   && !merchantId.includes('TEST')
IsProductionValidated(env) ==
  /\ env.NODE_ENV = Lit("production")
  /\ StartsWith(ToStr(env.MERCHANT_ID), <<"M">>)
  /\ ~Includes(ToStr(env.MERCHANT_ID), <<"T", "E", "S", "T">>)

PayStartValidated(env, body, now, rnd) ==
  LET r0 == NewReq("pay", body)
      timestamp == now
      transactionId == [prefix |-> "MT", ts |-> timestamp, rnd |-> rnd]
      userId == [prefix |-> "MUID", ts |-> timestamp, rnd |-> <<>>]
      baseUrl == Or(env.BASE_URL, Lit("http://localhost:3000"))
      payload == Obj(<<
        <<"merchantId", env.MERCHANT_ID>>,
        <<"merchantTransactionId", transactionId>>,
        <<"merchantUserId", userId>>,
        <<"amount", PayAmountValidated(body.amount)>>,
        <<"redirectUrl", CallbackUrl(baseUrl, transactionId)>>,
        <<"redirectMode", Lit("POST")>>,
        <<"callbackUrl", CallbackUrl(baseUrl, transactionId)>>,
        <<"mobileNumber", body.mobile>>,
        <<"paymentInstrument", Obj(<< <<"type", Lit("PAY_PAGE")>> >>)>> >>)
      payloadBase64 == Base64(JSONStringify(payload))
      xVerify == SignPay(payloadBase64, env.SALT_KEY, env.SALT_INDEX)
      apiHost == IF IsProductionValidated(env) THEN "api.phonepe.com"
                 ELSE "api-preprod.phonepe.com"
  IN IF MissingFields(body)
     THEN Respond(r0, 400, [error |-> "Missing required fields",
                            required |-> <<"amount", "mobile", "name">>,
                            received |-> body])
     ELSE IF ~validateMobileNumber(body.mobile)
     THEN Respond(r0, 400, [error |-> "Invalid mobile number format. Must be 10 digits starting with 6-9"])
     ELSE IF ~validateAmount(body.amount)
     THEN Respond(r0, 400, [error |-> "Invalid amount. Must be between 1 and 1,00,000"])
     ELSE IF Lt(Length(body.name), Num(200)) \/ Gt(Length(body.name), Num(5000))
     THEN Respond(r0, 400, [error |-> "Name must be between 2 and 50 characters"])
     ELSE IF ConfigMissing(env)
     THEN Respond(r0, 500, [error |-> "Server configuration error",
                            details |-> "Required environment variables not set"])
     ELSE Fetch([r0 EXCEPT !.txn = transactionId, !.payload = payload, !.hashes = 1],
                [method |-> "POST", host |-> apiHost,
                 path |-> "/apis/hermes/pg/v1/pay",
                 xverify |-> xVerify, request |-> payloadBase64])

PayFinishValidated(r, reply) ==
  LET r1 == [r EXCEPT !.reply = reply]
      data == reply.value
      redirectInfo == Get(Get(Get(data, "data"), "instrumentResponse"), "redirectInfo")
  IN CASE reply.kind = "error" ->
            Respond(r1, 500, [error |-> "Internal server error", details |-> "err.message"])
       [] reply.kind = "text" ->
            Respond(r1, 500, [error |-> "Invalid response from PhonePe",
                              httpStatus |-> "response.status",
                              rawResponse |-> "responseText"])
       [] reply.kind = "json" /\ Throws(data) ->
            Respond(r1, 500, [error |-> "Internal server error", details |-> "err.message"])
       [] reply.kind = "json" /\ ~Throws(data)
            /\ Get(data, "success") = Bool(TRUE)
            /\ ~Falsy(Get(data, "data"))
            /\ ~Falsy(Get(Get(data, "data"), "instrumentResponse")) ->
            IF ~Falsy(redirectInfo) /\ ~Falsy(Get(redirectInfo, "url"))
            THEN Respond(r1, 200, [success |-> TRUE, url |-> Get(redirectInfo, "url"),
                                   transactionId |-> r.txn,
                                   merchantTransactionId |-> r.txn])
            ELSE Respond(r1, 400, [error |-> "Payment initiation failed - missing redirect URL",
                                   details |-> data])
       [] OTHER ->
            Respond(r1, 400, [error |-> "Payment initiation failed",
                              details |-> data,
                              message |-> Or(Get(data, "message"), Lit("Unknown error from PhonePe")),
                              code |-> Or(Get(data, "code"), Lit("UNKNOWN_ERROR"))])

\* ------------------------- GET /status/:transactionId, src/server.js
\* merchantId.startsWith('M') && !merchantId.includes('TEST')
IsProductionServer(env) ==
  /\ StartsWith(ToStr(env.MERCHANT_ID), <<"M">>)
  /\ ~Includes(ToStr(env.MERCHANT_ID), <<"T", "E", "S", "T">>)

StatusCall(env, transactionId, production) ==
  [method |-> "GET",
   host |-> IF production THEN "api.phonepe.com" ELSE "api-preprod.phonepe.com",
   path |-> <<"/apis/hermes/pg/v1/status/", ToStr(env.MERCHANT_ID), "/", transactionId>>,
   xverify |-> SignStatus(env.MERCHANT_ID, transactionId, env.SALT_KEY, env.SALT_INDEX),
   xmerchant |-> env.MERCHANT_ID]

StatusStartServer(env, transactionId) ==
  LET r0 == [NewReq("status", transactionId) EXCEPT !.hashes = 1]
  IN IF Throws(env.MERCHANT_ID)
     THEN Respond(r0, 500, [error |-> "err.message"])
     ELSE Fetch(r0, StatusCall(env, transactionId, IsProductionServer(env)))

StatusFinishServer(r, reply) ==
  LET r1 == [r EXCEPT !.reply = reply]
  IN IF reply.kind = "json"
     THEN Respond(r1, 200, [relayed |-> reply.value])
     ELSE Respond(r1, 500, [error |-> "err.message"])

\* ------------- getTransactionStatus, src/unnamed/part_000 lines 310-348
\* the helper throws before signing when the configuration is incomplete
getTransactionStatusThrows(env) == ConfigMissing(env)

getTransactionStatus(env, transactionId) ==
  StatusCall(env, transactionId, IsProductionValidated(env))

\* -------- GET /status/:transactionId, src/unnamed/part_000 lines 351-377
StatusStartValidated(env, transactionId) ==
  LET r0 == NewReq("status", transactionId)
  IN IF getTransactionStatusThrows(env)
     THEN Respond(r0, 500, [error |-> "Status check failed",
                            details |-> "err.message",
                            transactionId |-> transactionId])
     ELSE Fetch([r0 EXCEPT !.hashes = 1], getTransactionStatus(env, transactionId))

Present(body, keys) == [k \in {j \in keys : body[j] # Undef} |-> body[k]]

StatusFinishValidated(r, reply, now) ==
  LET r1 == [r EXCEPT !.reply = reply]
      data == reply.value
      formattedResponse ==
        [transactionId |-> r.input,
         status |-> IF Falsy(Get(data, "success")) THEN Lit("FAILED") ELSE Lit("SUCCESS"),
         data |-> Get(data, "data"),
         message |-> Get(data, "message"),
         code |-> Get(data, "code"),
         timestamp |-> [iso |-> now]]
  IN IF reply.kind = "json" /\ ~Throws(data)
     THEN Respond(r1, 200, Present(formattedResponse, DOMAIN formattedResponse))
     ELSE Respond(r1, 500, [error |-> "Status check failed",
                            details |-> "err.message",
                            transactionId |-> r.input])

\* ------ POST /callback/:transactionId, src/unnamed/part_000 lines 252-278
CallbackAck(r, now) ==
  Respond(r, 200, [message |-> "Callback received successfully",
                   transactionId |-> r.input,
                   timestamp |-> [iso |-> now]])

CallbackPostStartValidated(env, transactionId, now) ==
  LET r0 == NewReq("cbPost", transactionId)
  IN IF Falsy(env.MERCHANT_ID)
     THEN CallbackAck(r0, now)
     ELSE IF getTransactionStatusThrows(env)
     THEN Respond(r0, 500, [error |-> "Callback processing failed"])
     ELSE Fetch([r0 EXCEPT !.hashes = 1], getTransactionStatus(env, transactionId))

CallbackPostFinishValidated(r, reply, now) ==
  LET r1 == [r EXCEPT !.reply = reply]
  IN IF reply.kind = "json"
     THEN CallbackAck(r1, now)
     ELSE Respond(r1, 500, [error |-> "Callback processing failed"])

\* ------------- POST /callback/:transactionId, src/server.js lines 120-127
CallbackPostStartServer(transactionId) ==
  Respond(NewReq("cbPost", transactionId), 200, [message |-> "Callback received"])

\* -------------------------------------- GET /callback/:transactionId
CallbackGetServer(transactionId) ==
  Respond(NewReq("cbGet", transactionId), 200, [text |-> "Payment callback received"])

CallbackGetValidated(transactionId) ==
  Respond(NewReq("cbGet", transactionId), 200,
          [html |-> "Payment Callback Received", transactionId |-> transactionId])

\* ----------------------------------------------------------------- inputs
Repeat(c, n) == [i \in 1..n |-> c]

ValidMobile == Str(<<"9", "1", "2", "3", "4", "5", "6", "7", "8", "9">>)
ValidBody == [amount |-> Num(1000), mobile |-> ValidMobile, name |-> Str(<<"A", "l">>)]

Amounts ==
  {Undef, Num(0), Num(0 - 500), Num(1000), Num(1050), Num(10000001),
   Str(<<"1", "0", "a", "b", "c">>)}
Mobiles == {Str(<<"1", "2", "3", "4", "5">>)}
Names == {Str(<<"A">>), Str(Repeat("n", 51))}

\* request bodies of POST /pay: the valid body with one member replaced
PayBodies ==
  {[ValidBody EXCEPT !.amount = a] : a \in Amounts}
    \cup {[ValidBody EXCEPT !.mobile = m] : m \in Mobiles}
    \cup {[ValidBody EXCEPT !.name = n] : n \in Names}

\* transaction ids a client puts in the path of /status and /callback
PathIds == {<<"M", "T", "1">>}

\* values of Math.random().toString(36).substr(2, 4).toUpperCase()
Suffixes == {<<"A", "1", "B", "2">>, <<"Z", "9">>}

FullEnv ==
  [MERCHANT_ID |-> Str(<<"M", "1">>), SALT_KEY |-> Str(<<"k">>),
   SALT_INDEX |-> Str(<<"1">>), NODE_ENV |-> Undef, BASE_URL |-> Undef,
   CALLBACK_URL |-> Undef]

\* process.env as loaded at startup
Envs ==
  {FullEnv,
   [FullEnv EXCEPT !.MERCHANT_ID = Undef],
   [FullEnv EXCEPT !.SALT_KEY = Undef],
   [FullEnv EXCEPT !.SALT_INDEX = Undef]}

\* what the gateway can send back
Redirect(info) ==
  Obj(<< <<"success", Bool(TRUE)>>,
         <<"data", Obj(<< <<"instrumentResponse", Obj(<< <<"redirectInfo", info>> >>)>> >>)>> >>)

JsonValues ==
  {Redirect(Obj(<< <<"url", Lit("https://pay/page")>> >>)),
   Redirect(Obj(<<>>)),
   Obj(<< <<"success", Bool(TRUE)>>, <<"data", Obj(<< <<"instrumentResponse", Obj(<<>>)>> >>)>> >>),
   Obj(<< <<"success", Bool(TRUE)>>, <<"data", Obj(<<>>)>> >>),
   Obj(<< <<"success", Bool(TRUE)>> >>),
   Obj(<< <<"success", Bool(FALSE)>>, <<"code", Lit("X")>>, <<"message", Lit("M")>> >>),
   Null}

Replies ==
  {[kind |-> "error", value |-> Undef], [kind |-> "text", value |-> Undef]}
    \cup {[kind |-> "json", value |-> v] : v \in JsonValues}

\* ------------------------------------------------------------------ state
VARIABLES draft, env, now, reqs, accepted, issued

vars == <<draft, env, now, reqs, accepted, issued>>

Init ==
  /\ draft \in Drafts
  /\ env \in Envs
  /\ now = 1
  /\ reqs = <<>>
  /\ accepted = 0
  /\ issued = <<>>

CanAccept == accepted < MaxReq /\ Cardinality(DOMAIN reqs) < Cardinality(Conns)

\* the request is handled up to its first await or its response
Accept(r) ==
  /\ reqs' = (accepted + 1) :> r @@ reqs
  /\ accepted' = accepted + 1
  /\ issued' = IF r.txn = Undef THEN issued ELSE Append(issued, r.txn)
  /\ UNCHANGED <<draft, env, now>>

ResumeSharedTransactionId(i, r) ==
  /\ reqs' = [j \in DOMAIN reqs |->
               IF j = i THEN r ELSE [reqs[j] EXCEPT !.txn = r.txn]]
  /\ UNCHANGED <<draft, env, now, accepted, issued>>

\* the suspended handler of request i runs on to its response
Resume(i, r) ==
  /\ reqs' = [reqs EXCEPT ![i] = r]
  /\ UNCHANGED <<draft, env, now, accepted, issued>>

PayStart(body, rnd) ==
  CASE draft = "server" -> PayStartServer(env, body, now)
    [] draft = "first" -> PayStartFirst(env, body, now)
    [] draft = "validated" -> PayStartValidated(env, body, now, rnd)

PayFinish(r, reply) ==
  CASE draft = "server" -> PayFinishServer(r, reply)
    [] draft = "first" -> PayFinishFirst(r, reply)
    [] draft = "validated" -> PayFinishValidated(r, reply)

PayReceive ==
  /\ CanAccept
  /\ \E body \in PayBodies, rnd \in Suffixes : Accept(PayStart(body, rnd))

PayResume ==
  \E i \in DOMAIN reqs, reply \in Replies :
    /\ reqs[i].kind = "pay" /\ reqs[i].pc = "await"
    /\ Resume(i, PayFinish(reqs[i], reply))

StatusReceive ==
  /\ CanAccept
  /\ draft \in {"server", "validated"}
  /\ \E id \in PathIds :
       Accept(IF draft = "server" THEN StatusStartServer(env, id)
              ELSE StatusStartValidated(env, id))

StatusResume ==
  \E i \in DOMAIN reqs, reply \in Replies :
    /\ reqs[i].kind = "status" /\ reqs[i].pc = "await"
    /\ Resume(i, IF draft = "server" THEN StatusFinishServer(reqs[i], reply)
                 ELSE StatusFinishValidated(reqs[i], reply, now))

CallbackPostReceive ==
  /\ CanAccept
  /\ draft \in {"server", "validated"}
  /\ \E id \in PathIds :
       Accept(IF draft = "server" THEN CallbackPostStartServer(id)
              ELSE CallbackPostStartValidated(env, id, now))

CallbackPostResume ==
  \E i \in DOMAIN reqs, reply \in Replies :
    /\ reqs[i].kind = "cbPost" /\ reqs[i].pc = "await"
    /\ Resume(i, CallbackPostFinishValidated(reqs[i], reply, now))

CallbackGetReceive ==
  /\ CanAccept
  /\ draft \in {"server", "validated"}
  /\ \E id \in PathIds :
       Accept(IF draft = "server" THEN CallbackGetServer(id) ELSE CallbackGetValidated(id))

\* the response has been sent and the connection carries the next request
Close ==
  \E i \in DOMAIN reqs :
    /\ reqs[i].pc = "done"
    /\ reqs' = [j \in DOMAIN reqs \ {i} |-> reqs[j]]
    /\ UNCHANGED <<draft, env, now, accepted, issued>>

\* a millisecond passes.  Date.now() is observed only through the identifiers
\* it stamps, so a millisecond that stamped none is the same as the one
\* before it and the clock moves on only from one that did
Tick ==
  /\ now < MaxClock
  /\ \E k \in 1..Len(issued) : issued[k].ts = now
  /\ now' = now + 1
  /\ UNCHANGED <<draft, env, reqs, accepted, issued>>

Next ==
  \/ PayReceive
  \/ PayResume
  \/ StatusReceive
  \/ StatusResume
  \/ CallbackPostReceive
  \/ CallbackPostResume
  \/ CallbackGetReceive
  \/ Close
  \/ Tick

Spec == Init /\ [][Next]_vars

TypeOK == accepted \in 0..MaxReq /\ now \in 1..MaxClock

\* ================================================================ claims
Pays == {i \in DOMAIN reqs : reqs[i].kind = "pay"}
Answered(r) == r.pc = "done"

\* the input constraints as the specification states them
NumericAmount(a) == a.t = "num" \/ (a.t = "str" /\ ToNumber(a) # NaN)
AmountInRange(a) ==
  NumericAmount(a) /\ ToNumber(a).h > 0 /\ ToNumber(a).h <= 100000 * 100
MobileMatches(m) ==
  /\ m.t = "str" /\ Len(m.s) = 10
  /\ m.s[1] \in {"6", "7", "8", "9"}
  /\ \A k \in 1..10 : m.s[k] \in Digits
NameInRange(n) == n.t = "str" /\ Len(n.s) >= 2 /\ Len(n.s) <= 50
SatisfiesConstraints(body) ==
  AmountInRange(body.amount) /\ MobileMatches(body.mobile) /\ NameInRange(body.name)

\* answered 400 without having built a payload or called the gateway
RejectedByValidation(r) ==
  /\ Len(r.resps) = 1 /\ r.resps[1].status = 400
  /\ r.calls = <<>> /\ r.payload = Undef

\* C1: a POST /pay body that violates an input constraint is answered 400
\* with no payload built and no gateway call made, and a body that satisfies
\* every constraint is not rejected by validation.
C1_ValidationRejectsExactlyInvalid ==
  \A i \in Pays :
    RejectedByValidation(reqs[i]) <=> ~SatisfiesConstraints(reqs[i].input)

\* C2: the merchantTransactionId values generated over a run are pairwise
\* distinct.
C2_TransactionIdsDistinct ==
  \A j, k \in 1..Len(issued) : j # k => issued[j] # issued[k]

\* the status check of a POST /callback request was attempted and failed
StatusCheckFailed(r) ==
  /\ r.kind = "cbPost" /\ Answered(r)
  /\ \/ r.calls # <<>> /\ r.reply.kind \in {"error", "text"}
     \/ /\ r.calls = <<>>
        /\ draft = "validated" /\ ~Falsy(env.MERCHANT_ID) /\ ConfigMissing(env)

IsAcknowledgment(resp, transactionId) ==
  /\ resp.status = 200
  /\ {"transactionId", "timestamp"} \subseteq DOMAIN resp.body
  /\ resp.body.transactionId = transactionId

\* C3: when the status check made by POST /callback/:transactionId fails, the
\* callback is still answered with the acknowledgment carrying the
\* transaction id and the receipt timestamp.
C3_CallbackSurvivesStatusFailure ==
  \A i \in DOMAIN reqs :
    StatusCheckFailed(reqs[i]) =>
      Len(reqs[i].resps) = 1 /\ IsAcknowledgment(reqs[i].resps[1], reqs[i].input)

\* the gateway said success but sent no redirect URL
SuccessWithoutUrl(reply) ==
  /\ reply.kind = "json"
  /\ Get(reply.value, "success") = Bool(TRUE)
  /\ RedirectUrl(reply.value) = Undef

GatewayRejected(reply) ==
  reply.kind = "json" /\ Get(reply.value, "success") = Bool(FALSE)

RejectionReply ==
  [kind |-> "json",
   value |-> Obj(<< <<"success", Bool(FALSE)>>, <<"code", Lit("X")>>, <<"message", Lit("M")>> >>)]

\* what tells one failure from another: the status and the error text
Outcome(resp) ==
  [status |-> resp.status,
   error |-> IF "error" \in DOMAIN resp.body THEN resp.body.error ELSE "none"]

\* the outcome this request would have had, had the gateway rejected it
RejectedOutcome(r) ==
  Outcome(PayFinish([r EXCEPT !.resps = <<>>, !.pc = "await"], RejectionReply).resps[1])

\* C4: a gateway reply with success true and no redirect URL never gives the
\* client the success result, and its failure is told apart from the
\* PaymentRejected outcome of a reply with success false.
C4_SuccessWithoutUrlIsDistinctFailure ==
  \A i \in Pays :
    (Answered(reqs[i]) /\ reqs[i].calls # <<>> /\ SuccessWithoutUrl(reqs[i].reply)) =>
      /\ reqs[i].resps[1].status # 200
      /\ Outcome(reqs[i].resps[1]) # RejectedOutcome(reqs[i])

\* C5: a gateway reply with success false is answered 400 with the gateway's
\* message and code unchanged and with the merchantTransactionId generated
\* for the request.
C5_RejectionCarriesCodeAndTransactionId ==
  \A i \in Pays :
    (Answered(reqs[i]) /\ reqs[i].calls # <<>> /\ GatewayRejected(reqs[i].reply)) =>
      LET resp == reqs[i].resps[1]
      IN /\ resp.status = 400
         /\ {"message", "code", "transactionId"} \subseteq DOMAIN resp.body
         /\ resp.body.message = Get(reqs[i].reply.value, "message")
         /\ resp.body.code = Get(reqs[i].reply.value, "code")
         /\ resp.body.transactionId = reqs[i].txn

\* C6: an Initiate Payment or Check Status request handled while a required
\* configuration value is missing ends with a 500 and neither computes a
\* signature nor calls the gateway.  (A body the validation turns down is
\* answered 400 before the configuration is looked at.)
C6_MissingConfigStopsBeforeSigning ==
  ConfigMissing(env) =>
    \A i \in DOMAIN reqs :
      (reqs[i].kind \in {"pay", "status"} /\ ~RejectedByValidation(reqs[i])) =>
        /\ reqs[i].hashes = 0
        /\ reqs[i].calls = <<>>
        /\ Answered(reqs[i])
        /\ Len(reqs[i].resps) = 1 /\ reqs[i].resps[1].status = 500

\* C7: a client request causes at most one outbound call to the gateway, on
\* every path of every endpoint.
C7_AtMostOneGatewayCall ==
  \A i \in DOMAIN reqs : Len(reqs[i].calls) <= 1

\* a request whose only gateway call failed has been answered
C7_Witness ==
  \E i \in DOMAIN reqs :
    /\ Answered(reqs[i]) /\ Len(reqs[i].calls) = 1
    /\ reqs[i].reply.kind = "error"

\* the minor-unit amount the specification asks for: amount * 100, an integer
ExpectedMinorUnits(a) == MathRound(Times100(ToNumber(a)))
IsNonNegativeInteger(x) == x.t = "num" /\ x.h >= 0 /\ x.h % 100 = 0

\* C8: the amount of the payload sent to the gateway is the non-negative
\* integer round(amount * 100): 10 gives 1000 and 10.50 gives 1050.
C8_AmountInMinorUnits ==
  \A i \in Pays :
    (reqs[i].calls # <<>> /\ AmountInRange(reqs[i].input.amount)) =>
      /\ IsNonNegativeInteger(Get(reqs[i].payload, "amount"))
      /\ Get(reqs[i].payload, "amount") = ExpectedMinorUnits(reqs[i].input.amount)

UpstreamFailed(r) ==
  Answered(r) /\ r.calls # <<>> /\ r.reply.kind \in {"error", "text"}

\* C9: when the gateway call of Initiate Payment or Check Status fails at
\* the network level or its reply is not JSON, the handler answers with one
\* 5xx response of its own.
C9_UpstreamFailureIs5xx ==
  \A i \in DOMAIN reqs :
    (reqs[i].kind \in {"pay", "status"} /\ UpstreamFailed(reqs[i])) =>
      /\ Len(reqs[i].resps) = 1
      /\ reqs[i].resps[1].status \in 500..599

\* a pay request answered after a reply that is not JSON, a status request
\* answered after a network failure
C9_Witness ==
  /\ \E i \in DOMAIN reqs :
       reqs[i].kind = "pay" /\ UpstreamFailed(reqs[i]) /\ reqs[i].reply.kind = "text"
  /\ \E i \in DOMAIN reqs :
       reqs[i].kind = "status" /\ UpstreamFailed(reqs[i]) /\ reqs[i].reply.kind = "error"

\* C10: X-VERIFY of the pay call is hex(SHA256(p + "/pg/v1/pay" + key)) +
\* "###" + index with p the base64 text sent as body.request of the same
\* call; X-VERIFY of the status call is hex(SHA256("/pg/v1/status/" +
\* merchantId + "/" + transactionId + key)) + "###" + index with merchantId
\* and transactionId those of the requested URL.  A missing value reads as
\* the text "undefined", as string concatenation makes it.
C10_SignatureCoversWhatIsSent ==
  \A i \in DOMAIN reqs : \A n \in 1..Len(reqs[i].calls) :
    LET call == reqs[i].calls[n]
        key == ToStr(env.SALT_KEY)
        index == ToStr(env.SALT_INDEX)
    IN IF call.method = "POST"
       THEN call.xverify = <<Sha256Hex(<<call.request, "/pg/v1/pay", key>>), "###", index>>
       ELSE call.xverify =
              <<Sha256Hex(<<"/pg/v1/status/", call.path[2], "/", call.path[4], key>>),
                "###", index>>

\* a pay call and a status call are both in flight
C10_Witness ==
  /\ \E i \in DOMAIN reqs : reqs[i].kind = "pay" /\ Len(reqs[i].calls) = 1
  /\ \E i \in DOMAIN reqs : reqs[i].kind = "status" /\ Len(reqs[i].calls) = 1

\* the requests that are open before and after a step
Staying == DOMAIN reqs \cap DOMAIN reqs'

\* a success response names the identifier the request's own payload carries
OwnTransactionId(r) ==
  (r.kind = "pay" /\ Len(r.resps) = 1 /\ "transactionId" \in DOMAIN r.resps[1].body) =>
    r.resps[1].body.transactionId = Get(r.payload, "merchantTransactionId")

NoSharedStateStep ==
  /\ env' = env
  /\ draft' = draft
  /\ \A i \in Staying :
       reqs'[i] # reqs[i] =>
         /\ reqs[i].pc = "await"
         /\ reqs'[i].input = reqs[i].input
         /\ reqs'[i].txn = reqs[i].txn
         /\ reqs'[i].payload = reqs[i].payload
         /\ reqs'[i].calls = reqs[i].calls
         /\ \A j \in Staying \ {i} : reqs'[j] = reqs[j]
  /\ \A i \in DOMAIN reqs' : OwnTransactionId(reqs'[i])

\* C11: whatever the interleaving of requests suspended at their gateway
\* call, no step of a handler changes the configuration or anything held by
\* another request, in flight or answered; a handler that resumes keeps its
\* own input, identifier, payload and call, and the identifier it answers
\* with is the one of its own payload.
C11_NoSharedMutableState == [][NoSharedStateStep]_vars

\* one request has been answered after its gateway call while another, with
\* an identifier of its own, is still suspended at its call
C11_Witness ==
  \E i, j \in DOMAIN reqs :
    /\ i # j
    /\ reqs[i].pc = "done" /\ reqs[i].calls # <<>>
    /\ reqs[j].pc = "await"
    /\ reqs[i].txn # Undef /\ reqs[j].txn # Undef /\ reqs[i].txn # reqs[j].txn

\* reading the nested members of the reply threw a TypeError
NestedReadThrew(r) ==
  /\ r.reply.kind = "json"
  /\ \/ Throws(r.reply.value)
     \/ draft = "first" /\ PayTestThrowsFirst(r.reply.value)

\* C12: a POST /pay request is answered exactly once on every control path:
\* never twice, and a handler that has run to its end, in particular after
\* its gateway call returned or failed, has sent its one response.
C12_ExactlyOneResponse ==
  \A i \in Pays :
    /\ Len(reqs[i].resps) <= 1
    /\ Answered(reqs[i]) <=> Len(reqs[i].resps) = 1

\* a pay request of the first draft answered after the TypeError raised by
\* reading the nested members of a reply that is an object without them
C12_Witness ==
  \E i \in Pays :
    /\ Answered(reqs[i]) /\ reqs[i].calls # <<>>
    /\ NestedReadThrew(reqs[i]) /\ reqs[i].reply.value # Null
    /\ Len(reqs[i].resps) = 1
====
